---- MODULE Spec2Model ----
(***************************************************************************)
(* A model of tmc.py: the TTL cache store (get_cache / write_cache), the   *)
(* query executor api() with its token handling and offset pagination, and *)
(* api_join() with its pool of worker threads, and the table renderer      *)
(* print_table().                                                          *)
(***************************************************************************)
EXTENDS Integers, Sequences, FiniteSets, TLC

VARIABLES
    now,      \* now_secs(): the wall clock, in seconds
    files,    \* the cache files: cache name -> decoded JSON document
    noCache,  \* os.environ.get('TMC_NO_CACHE') == 'TRUE'
    srv,      \* what the remote servers hold and how they answer
    fr,       \* one api() frame per thread: 0 is the main thread
    jn,       \* the state of the api_join() call of the main thread
    last,     \* the last cache operation the main thread completed
    tb        \* the print_table() call of the main thread

vars == <<now, files, noCache, srv, fr, jn, last, tb>>

(***************************************************************************)
(* Bounds of the model.                                                    *)
(***************************************************************************)
MaxClock == 2
MaxTotal == 217
MaxLimit == 120
MaxTtl == 2
MaxParents == 6
MaxRecords == 2
MaxMixed == 2
MaxRows == 2
MaxCount == 10

(***************************************************************************)
(* Program constants.                                                      *)
(***************************************************************************)
MaxWorkers == 5
PageSize == 100
DefaultExpire == 60

(***************************************************************************)
(* Python values. A value is a record tagged with its kind, so that values *)
(* of different kinds can be compared.                                     *)
(***************************************************************************)
None == [k |-> "none"]
Num(n) == [k |-> "int", v |-> n]
Str(s) == [k |-> "str", v |-> s]
List(s) == [k |-> "list", v |-> s]
Dict(f) == [k |-> "dict", v |-> f]
Token(e) == [k |-> "token", exp |-> e]

IsNone(x) == x.k = "none"

\* str(x)
PyStr(x) ==
    CASE x.k = "int" -> ToString(x.v)
      [] x.k = "str" -> x.v
      [] OTHER -> "None"

\* d.get(key)
DictGet(d, key) == IF key \in DOMAIN d.v THEN d.v[key] ELSE None

Last(s) == s[Len(s)]

Min(a, b) == IF a < b THEN a ELSE b

\* data[0:limit] for a limit >= 0
Slice(s, limit) == SubSeq(s, 1, Min(limit, Len(s)))

(***************************************************************************)
(* The TTL cache store. A cache file holds the document                    *)
(* {"expires": unixSeconds, "data": value}; json.dumps followed by         *)
(* json.loads gives back the document for the values used here. A file     *)
(* opened for writing and not yet written is empty (Torn): json.loads of   *)
(* it raises.                                                              *)
(***************************************************************************)
Torn == [torn |-> TRUE]
Raised == [k |-> "raise"]

isfile(fs, name) == name \in DOMAIN fs

\* get_cache with the entry still served at the second it expires
get_cache_late(fs, t, name, raw) ==
    IF isfile(fs, name)
    THEN IF fs[name] = Torn THEN Raised
         ELSE IF raw THEN fs[name]
         ELSE IF t <= fs[name].expires THEN fs[name].data
         ELSE None
    ELSE None

\* get_cache(name, raw): None, the data, the document, or Raised
get_cache(fs, t, name, raw) ==
    IF isfile(fs, name)
    THEN IF fs[name] = Torn THEN Raised
         ELSE IF raw THEN fs[name]
         ELSE IF t < fs[name].expires THEN fs[name].data
         ELSE None
    ELSE None

\* expire_secs or 60
OrDefault(expire_secs) ==
    IF IsNone(expire_secs) \/ expire_secs.v = 0 THEN DefaultExpire ELSE expire_secs.v

\* the document write_cache hands to write_file
cache_doc(t, data, expire_secs) ==
    [expires |-> t + OrDefault(expire_secs), data |-> data]

\* the files with one of them replaced
Put(fs, name, doc) ==
    [n \in DOMAIN fs \cup {name} |-> IF n = name THEN doc ELSE fs[n]]

\* write_cache(name, data, expire_secs)
write_cache(fs, t, name, data, expire_secs) ==
    Put(fs, name, cache_doc(t, data, expire_secs))

(***************************************************************************)
(* jmespath.search for the expressions the program builds, as syntax       *)
(* trees: name, a.b, a[].b, a || b, a literal, [a, b] and a text that does *)
(* not parse.                                                              *)
(***************************************************************************)
Field(name) == [op |-> "field", name |-> name]
Sub(a, b) == [op |-> "sub", a |-> a, b |-> b]
FlatProj(a, b) == [op |-> "flatproj", a |-> a, b |-> b]
OrElse(a, b) == [op |-> "or", a |-> a, b |-> b]
Lit(v) == [op |-> "lit", v |-> v]
MultiList(es) == [op |-> "multilist", es |-> es]
Current == [op |-> "current"]
Malformed == [op |-> "malformed"]

\* jmespath's truth value: null, [], {} and "" are false
Truthy(v) ==
    CASE v.k = "none" -> FALSE
      [] v.k = "list" -> Len(v.v) > 0
      [] v.k = "dict" -> DOMAIN v.v # {}
      [] v.k = "str" -> v.v # ""
      [] OTHER -> TRUE

RECURSIVE Flatten(_)
\* one level of flattening of a sequence of values
Flatten(s) ==
    IF s = <<>> THEN <<>>
    ELSE (IF Head(s).k = "list" THEN Head(s).v ELSE <<Head(s)>>) \o Flatten(Tail(s))

RECURSIVE search(_, _)
RECURSIVE ProjectEach(_, _)
\* the projection of e over the elements of s, null results dropped
ProjectEach(e, s) ==
    IF s = <<>> THEN <<>>
    ELSE LET r == search(e, Head(s))
         IN (IF IsNone(r) THEN <<>> ELSE <<r>>) \o ProjectEach(e, Tail(s))

\* jmespath.search(expression, data) for a well-formed expression
search(e, v) ==
    CASE e.op = "current" -> v
      [] e.op = "lit" -> e.v
      [] e.op = "field" ->
            IF v.k = "dict" /\ e.name \in DOMAIN v.v THEN v.v[e.name] ELSE None
      [] e.op = "sub" ->
            LET l == search(e.a, v) IN IF IsNone(l) THEN None ELSE search(e.b, l)
      [] e.op = "or" ->
            LET l == search(e.a, v) IN IF Truthy(l) THEN l ELSE search(e.b, v)
      [] e.op = "flatproj" ->
            LET l == search(e.a, v)
            IN IF l.k = "list" THEN List(ProjectEach(e.b, Flatten(l.v))) ELSE None
      [] e.op = "multilist" ->
            IF IsNone(v) THEN None
            ELSE List([i \in 1..Len(e.es) |-> search(e.es[i], v)])

(***************************************************************************)
(* Paths. A path is its '/' segments and the values of its query string;   *)
(* a template has Num(n) where the text has the slot {n}.                  *)
(***************************************************************************)
Path(segs, query) == [segs |-> segs, query |-> query]

\* path.split('?')[0].split('/')[-1]
entity_of(path) == Last(path.segs)

FormatPart(part, d) == IF part.k = "int" THEN PyStr(d[part.v + 1]) ELSE part.v

\* join_path.format(*d)
format(tpl, d) ==
    Path([i \in 1..Len(tpl.segs) |-> FormatPart(tpl.segs[i], d)],
         [i \in 1..Len(tpl.query) |-> FormatPart(tpl.query[i], d)])

\* the transform of a child fetch: join_entity + ' || `[]`'
ChildTransform(join_entity) == OrElse(Field(join_entity), Lit(List(<<>>)))

\* the transform of the parent fetch: '%s[].fullName.[%s]'
ParentTransform(entity, name_attrs) ==
    FlatProj(Field(entity),
             Sub(Field("fullName"),
                 MultiList([i \in 1..Len(name_attrs) |-> Field(name_attrs[i])])))

\* '%s-%s-%s' % (entity, join_entity, d[0])
ChildCacheName(entity, join_entity, d) ==
    entity \o "-" \o join_entity \o "-" \o PyStr(d[1])

(***************************************************************************)
(* The remote servers. srv.total items are held under the paginated field  *)
(* "items" and served by offset in pages of the requested size; srv.tc     *)
(* says how totalCount is reported; srv.codes and srv.xcodes are the       *)
(* statuses the API and the token endpoint may answer; srv.ttls are the    *)
(* expires_in values a token may be granted; srv.child[i] is the answer to *)
(* the child fetch of parent i.                                            *)
(***************************************************************************)
ParentNames == <<"n1", "n2", "n3", "n4", "n5", "n6", "n7", "n8">>

ItemsPath == Path(<<"v1alpha1", "items">>, <<>>)
ParentPath == Path(<<"v1alpha1", "workspaces">>, <<>>)
JoinTemplate ==
    [segs |-> <<Str("v1alpha1"), Str("workspaces"), Num(0), Str("policies")>>,
     query |-> <<>>]
NameAttrs == <<"name">>

NoParams == [paged |-> FALSE, size |-> 0, offset |-> None]

ErrorBody == Dict("error" :> Str("denied"))

\* the items of one page
Page(total, params) ==
    LET from == IF IsNone(params.offset) THEN 0 ELSE params.offset.v
        upto == IF params.paged THEN Min(from + params.size, total) ELSE total
    IN [i \in 1..(IF upto > from THEN upto - from ELSE 0) |-> Num(from + i)]

TotalCount(total, tc) ==
    CASE tc = "int" -> "totalCount" :> Num(total)
      [] tc = "str" -> "totalCount" :> Str(ToString(total))
      [] OTHER -> "includeTotalCount" :> Str("ignored")

ItemsBody(params) ==
    Dict(("items" :> List(Page(srv.total, params))) @@ TotalCount(srv.total, srv.tc))

ParentRecord(i) == Dict("fullName" :> Dict("name" :> Str(ParentNames[i])))

ParentBody ==
    Dict("workspaces" :> List([i \in 1..Len(srv.child) |-> ParentRecord(i)]))

ChildRecord(i, j) == Dict(("parent" :> Str(ParentNames[i])) @@ ("n" :> Num(j)))

ChildBody(i) ==
    IF srv.child[i].n < 0 THEN Dict("totalCount" :> Num(0))
    ELSE Dict("policies" :> List([j \in 1..srv.child[i].n |-> ChildRecord(i, j)]))

Response(st, body) == [status |-> st, body |-> IF st = 200 THEN body ELSE ErrorBody]

\* the answers the server may give to one request
Responses(path, params) ==
    IF path = ItemsPath THEN {Response(st, ItemsBody(params)) : st \in srv.codes}
    ELSE IF path = ParentPath THEN {Response(st, ParentBody) : st \in srv.codes}
    ELSE LET known == {i \in 1..Len(srv.child) : ParentNames[i] = path.segs[3]}
         IN IF known = {} THEN {Response(404, ErrorBody)}
            ELSE LET i == CHOOSE i \in known : TRUE
                 IN {Response(srv.child[i].st, ChildBody(i))}

(***************************************************************************)
(* api(): one frame per thread. pc is the place the call has reached:      *)
(* "start" (called; for a pool task, queued), "token", "exchange",         *)
(* "tokwrite", "request", "finish", and at its end "done" (returned),      *)
(* "fatal" (sys.exit) or "raised" (an exception).                          *)
(***************************************************************************)
Procs == 0..MaxParents
Workers == Procs \ {0}

IdleFrame ==
    [pc |-> "idle", path |-> ItemsPath, paginate |-> None, limit |-> None,
     transform |-> None, cache |-> None, expire_mins |-> None, allowed |-> {200},
     data |-> None, size |-> PageSize, offset |-> None, token |-> None,
     pend |-> None, ret |-> None, err |-> "",
     reqs |-> <<>>, exch |-> 0, xst |-> 0, looks |-> 0]

\* the frame of a call api(path, paginate=, limit=, transform=, cache=, allowed_codes=)
NewCall(path, paginate, limit, transform, cache, allowed) ==
    [IdleFrame EXCEPT !.pc = "start", !.path = path, !.paginate = paginate,
                      !.limit = limit, !.transform = transform, !.cache = cache,
                      !.allowed = allowed]

Active == {"token", "exchange", "tokwrite", "request", "finish"}
Ended == {"done", "fatal", "raised", "cancelled"}

\* the pool tasks a worker thread is running
Running == {w \in Workers : fr[w].pc \in Active}

\* a pool that starts a thread for every task
CanStartUnbounded(p) ==
    \/ p = 0
    \/ \A w \in Workers : w < p => fr[w].pc # "start"

\* a pool task starts when a worker is free, in the order of submission
CanStart(p) ==
    \/ p = 0
    \/ /\ Cardinality(Running) < MaxWorkers
       /\ \A w \in Workers : w < p => fr[w].pc # "start"

\* the page size left at 100 whatever the limit
page_size_fixed(limit) == PageSize

\* pagination['pagination.size']
page_size(limit) ==
    IF limit # None /\ limit.v < PageSize THEN limit.v ELSE PageSize

\* data = api(...) in place of data.extend(api(...))
Assigned(p, f) ==
    IF p # 0 /\ f.pc = "done" THEN [jn EXCEPT !.data = f.ret.v] ELSE jn

\* _join's data.extend(...) of what the api() call of a pool task returned
Extended(p, f) ==
    IF p # 0 /\ f.pc = "done" THEN [jn EXCEPT !.data = @ \o f.ret.v] ELSE jn

\* the lookup made whether or not caching is bypassed
LookupAlways(f) ==
    IF f.cache # None THEN get_cache(files, now, f.cache.v, FALSE) ELSE None

\* the lookup returning the stored document instead of its data
LookupRaw(f) ==
    IF f.cache # None /\ ~noCache THEN get_cache(files, now, f.cache.v, TRUE) ELSE None

\* data = get_cache(cache) when a cache name is given and caching is enabled
Lookup(f) ==
    IF f.cache # None /\ ~noCache THEN get_cache(files, now, f.cache.v, FALSE) ELSE None

\* api(), to the cache lookup
ApiStart(p) ==
    /\ fr[p].pc = "start"
    /\ CanStart(p)
    /\ LET f == fr[p]
           hit == Lookup(f)
           g == IF hit = Raised
                THEN [f EXCEPT !.pc = "raised", !.err = "JSONDecodeError"]
                ELSE IF hit # None
                THEN [f EXCEPT !.pc = "done", !.ret = hit]
                ELSE [f EXCEPT !.pc = "token", !.size = page_size(f.limit)]
       IN /\ fr' = [fr EXCEPT ![p] = g]
          /\ jn' = Extended(p, g)
    /\ UNCHANGED <<now, files, noCache, srv, last, tb>>

\* the token never looked up: every call makes its own exchange
ApiGetTokenAnew(p) ==
    /\ fr[p].pc = "token"
    /\ fr' = [fr EXCEPT ![p] = [@ EXCEPT !.pc = "exchange"]]
    /\ UNCHANGED <<now, files, noCache, srv, jn, last, tb>>

\* access_token = get_cache('token')
ApiGetToken(p) ==
    /\ fr[p].pc = "token"
    /\ LET f == fr[p]
           tok == IF ~noCache THEN get_cache(files, now, "token", FALSE) ELSE None
           n == IF noCache THEN f.looks ELSE f.looks + 1
       IN fr' = [fr EXCEPT ![p] =
                   IF tok = Raised
                   THEN [f EXCEPT !.pc = "raised", !.err = "JSONDecodeError", !.looks = n]
                   ELSE IF tok = None
                   THEN [f EXCEPT !.pc = "exchange", !.looks = n]
                   ELSE [f EXCEPT !.pc = "request", !.token = tok, !.looks = n,
                                  !.data = List(<<>>)]]
    /\ UNCHANGED <<now, files, noCache, srv, jn, last, tb>>

\* the refresh-token exchange; the token file is opened for writing
ApiExchange(p) ==
    /\ fr[p].pc = "exchange"
    /\ \E st \in srv.xcodes, expires_in \in srv.ttls :
          LET f == [fr[p] EXCEPT !.exch = @ + 1, !.xst = st]
              tok == Token(now + expires_in)
          IN IF st # 200
             THEN /\ fr' = [fr EXCEPT ![p] = [f EXCEPT !.pc = "fatal", !.err = "SystemExit"]]
                  /\ files' = files
             ELSE IF noCache
             THEN /\ fr' = [fr EXCEPT ![p] =
                              [f EXCEPT !.pc = "request", !.token = tok,
                                        !.data = List(<<>>)]]
                  /\ files' = files
             ELSE /\ fr' = [fr EXCEPT ![p] =
                              [f EXCEPT !.pc = "tokwrite", !.token = tok,
                                        !.pend = cache_doc(now, tok, Num(expires_in))]]
                  /\ files' = Put(files, "token", Torn)
    /\ UNCHANGED <<now, noCache, srv, jn, last, tb>>

\* write_file of the token document
ApiTokenWrite(p) ==
    /\ fr[p].pc = "tokwrite"
    /\ files' = Put(files, "token", fr[p].pend)
    /\ fr' = [fr EXCEPT ![p] = [@ EXCEPT !.pc = "request", !.pend = None,
                                         !.data = List(<<>>)]]
    /\ UNCHANGED <<now, noCache, srv, jn, last, tb>>

\* the comparison without the conversions: len(data) == _data.get('totalCount')
AtTotalTyped(acc, body) == Num(Len(acc)) = DictGet(body, "totalCount")

\* str(len(data)) == str(_data.get('totalCount'))
AtTotal(acc, body) == PyStr(Num(Len(acc))) = PyStr(DictGet(body, "totalCount"))

\* limit is not None and len(data) >= limit
AtLimit(acc, limit) == limit # None /\ Len(acc) >= limit.v

\* what one allowed response does to the frame: the body of the while loop
PageStep(f, body) ==
    IF f.paginate = None
    THEN [f EXCEPT !.pc = "finish", !.data = body]
    ELSE IF f.paginate.v \notin DOMAIN body.v \/ Len(body.v[f.paginate.v].v) = 0
    THEN [f EXCEPT !.pc = "finish"]
    ELSE LET acc == f.data.v \o body.v[f.paginate.v].v
         IN IF AtTotal(acc, body)
            THEN [f EXCEPT !.pc = "finish", !.data = List(acc)]
            ELSE IF AtLimit(acc, f.limit)
            THEN [f EXCEPT !.pc = "finish", !.data = List(Slice(acc, f.limit.v))]
            ELSE [f EXCEPT !.data = List(acc), !.offset = Num(Len(acc))]

\* kwargs['params'] of the request
Params(f) ==
    IF f.paginate = None THEN NoParams
    ELSE [paged |-> TRUE, size |-> f.size, offset |-> f.offset]

\* only server errors refused
RefusedAbove(f, status) == status >= 500

\* r.status_code not in allowed_codes
Refused(f, status) == status \notin f.allowed

\* one HTTP API request and the handling of its response
ApiRequest(p) ==
    /\ fr[p].pc = "request"
    /\ \E r \in Responses(fr[p].path, Params(fr[p])) :
          LET f == [fr[p] EXCEPT !.reqs = Append(@, [params |-> Params(fr[p]),
                                                     token |-> fr[p].token,
                                                     at |-> now,
                                                     status |-> r.status])]
          IN fr' = [fr EXCEPT ![p] =
                      IF Refused(f, r.status)
                      THEN [f EXCEPT !.pc = "fatal", !.err = "SystemExit"]
                      ELSE PageStep(f, r.body)]
    /\ UNCHANGED <<now, files, noCache, srv, jn, last, tb>>

\* the parameters of write_cache(name, data, expire_secs=None)
WriteCacheParams == {"name", "data", "expire_secs"}

\* the keyword api() passes the ttl under: write_cache(cache, data, expire_mins=...)
TtlKeyword == "expire_mins"

\* the transform, the cache write and the return
ApiFinish(p) ==
    /\ fr[p].pc = "finish"
    /\ LET f == fr[p]
           data == IF f.transform = None \/ f.transform = Malformed THEN f.data
                   ELSE search(f.transform, f.data)
           g == IF f.transform = Malformed
                THEN [f EXCEPT !.pc = "raised", !.err = "ParseError"]
                ELSE IF f.cache # None /\ ~noCache /\ TtlKeyword \notin WriteCacheParams
                THEN [f EXCEPT !.pc = "raised", !.err = "TypeError", !.data = data]
                ELSE [f EXCEPT !.pc = "done", !.data = data, !.ret = data]
       IN /\ fr' = [fr EXCEPT ![p] = g]
          /\ files' = IF g.pc = "done" /\ f.cache # None /\ ~noCache
                      THEN write_cache(files, now, f.cache.v, data, f.expire_mins)
                      ELSE files
          /\ jn' = Extended(p, g)
    /\ UNCHANGED <<now, noCache, srv, last, tb>>

\* the steps of the api() call of thread p
ApiStep(p) ==
    \/ ApiStart(p)
    \/ ApiGetToken(p)
    \/ ApiExchange(p)
    \/ ApiTokenWrite(p)
    \/ ApiRequest(p)
    \/ ApiFinish(p)

\* time passes
Tick ==
    /\ now < MaxClock
    /\ now' = now + 1
    /\ UNCHANGED <<files, noCache, srv, fr, jn, last, tb>>

(***************************************************************************)
(* The main thread.                                                        *)
(***************************************************************************)
NoFiles == [n \in {} |-> None]
NoJoin == [pc |-> "none", cache |-> FALSE, data |-> <<>>, ret |-> None]
NoLast == [op |-> "none", name |-> "", raw |-> FALSE, at |-> 0, ret |-> None, doc |-> None]

\* no print_table() call
NoTable == [pc |-> "none"]

Limits == {None} \cup {Num(l) : l \in 0..MaxLimit}

\* a server that answers every request with 200
GoodServer(total, tc, child) ==
    [total |-> total, tc |-> tc, codes |-> {200}, xcodes |-> {200},
     ttls |-> {MaxTtl}, child |-> child]

\* the main thread has not yet made its call: a run of the command line makes one
MainIdle == fr[0].pc = "idle" /\ jn.pc = "none"

\* api(url, paginate='items', limit=limit) as the command line calls it
CallPaged ==
    /\ MainIdle
    /\ \E limit \in Limits :
          fr' = [fr EXCEPT ![0] = NewCall(ItemsPath, Str("items"), limit, None, None, {200})]
    /\ UNCHANGED <<now, files, noCache, srv, jn, last, tb>>

InitPage ==
    /\ now = 0
    /\ files = NoFiles
    /\ noCache = FALSE
    /\ srv \in {GoodServer(t, tc, <<>>) : t \in 0..MaxTotal, tc \in {"int", "str"}}
    /\ fr = [p \in Procs |-> IdleFrame]
    /\ jn = NoJoin
    /\ last = NoLast
    /\ tb = NoTable

NextPage == CallPaged \/ ApiStep(0)

\* one paginated call against a server that answers 200
SpecPage == InitPage /\ [][NextPage]_vars

(***************************************************************************)
(* The cache store used directly: write_cache and get_cache called by the  *)
(* main thread, with the clock running.                                    *)
(***************************************************************************)
CacheNames == {"q", "r"}
CacheData == {None, List(<<>>), List(<<Num(7)>>)}
Ttls == {None} \cup {Num(t) : t \in 0..MaxTtl}

\* write_cache(name, data, ttl), or write_cache(name, data) when ttl is None
WriteCache(names, datas) ==
    /\ MainIdle
    /\ \E name \in names, data \in datas, ttl \in Ttls :
          /\ files' = write_cache(files, now, name, data, ttl)
          /\ last' = [NoLast EXCEPT !.op = "write_cache", !.name = name, !.at = now,
                                    !.doc = files'[name]]
    /\ UNCHANGED <<now, noCache, srv, fr, jn, tb>>

\* the same call, with its arguments kept for the properties
WriteCacheOp ==
    /\ MainIdle
    /\ \E name \in CacheNames, data \in CacheData, ttl \in Ttls :
          /\ files' = write_cache(files, now, name, data, ttl)
          /\ last' = [op |-> "write_cache", name |-> name, raw |-> FALSE, at |-> now,
                      ret |-> None, doc |-> files'[name], data |-> data, ttl |-> ttl]
    /\ UNCHANGED <<now, noCache, srv, fr, jn, tb>>

\* get_cache(name, raw)
GetCacheOp ==
    /\ MainIdle
    /\ \E name \in CacheNames, raw \in BOOLEAN :
          last' = [op |-> "get_cache", name |-> name, raw |-> raw, at |-> now,
                   ret |-> get_cache(files, now, name, raw),
                   doc |-> IF isfile(files, name) THEN files[name] ELSE None]
    /\ UNCHANGED <<now, files, noCache, srv, fr, jn, tb>>

InitCache ==
    /\ now = 0
    /\ files = NoFiles
    /\ noCache = FALSE
    /\ srv = GoodServer(0, "int", <<>>)
    /\ fr = [p \in Procs |-> IdleFrame]
    /\ jn = NoJoin
    /\ last = NoLast
    /\ tb = NoTable

NextCache == WriteCacheOp \/ GetCacheOp \/ Tick

\* the cache store on its own
SpecCache == InitCache /\ [][NextCache]_vars

(***************************************************************************)
(* api() called by the main thread, with servers that may refuse, the      *)
(* clock running and the query cache written beforehand.                   *)
(***************************************************************************)
ApiArgs ==
    [paginate : {None, Str("items")},
     limit : {None, Num(MaxLimit)},
     transform : {None, Field("items")},
     cache : {None, Str("q")},
     allowed : {{200}, {200, 404}}]

\* api(path, paginate=, limit=, transform=, cache=, allowed_codes=)
CallApi ==
    /\ MainIdle
    /\ \E a \in ApiArgs :
          fr' = [fr EXCEPT ![0] = NewCall(ItemsPath, a.paginate, a.limit, a.transform,
                                          a.cache, a.allowed)]
    /\ UNCHANGED <<now, files, noCache, srv, jn, last, tb>>

\* a server that may answer 404, and a token endpoint that may answer 401
AnyServer(total) ==
    [total |-> total, tc |-> "int", codes |-> {200, 404}, xcodes |-> {200, 401},
     ttls |-> 1..MaxTtl, child |-> <<>>]

\* the token file an earlier run left behind
TokenFile(e) == Put(NoFiles, "token", [expires |-> e, data |-> Token(e)])

Init ==
    /\ now = 0
    /\ files \in {NoFiles} \cup {TokenFile(e) : e \in 1..MaxTtl}
    /\ noCache \in BOOLEAN
    /\ srv \in {AnyServer(t) : t \in {0, MaxTotal}}
    /\ fr = [p \in Procs |-> IdleFrame]
    /\ jn = NoJoin
    /\ last = NoLast
    /\ tb = NoTable

Next ==
    \/ CallApi
    \/ ApiStep(0)
    \/ WriteCache({"q"}, {None, List(<<Num(7)>>)})
    \/ Tick

Spec == Init /\ [][Next]_vars

(***************************************************************************)
(* api_join(): the parent fetch by the main thread, one pool task per      *)
(* parent id-tuple, and list(EX.map(...)) collecting the tasks in order.   *)
(* jn.pc is "parent", then "wait", then "returned", "fatal" or "raised".   *)
(***************************************************************************)
\* the pool tasks of the join
Tasks == {p \in Workers : fr[p].pc # "idle"}

\* every task has been submitted: EX.map(...) not drained by list(...)
TasksSubmitted == \A p \in Tasks : fr[p].pc # "idle"

\* every task has ended, whether it returned or not
TasksEnded == \A p \in Tasks : fr[p].pc \in Ended

\* every task has returned
TasksDone == \A p \in Tasks : fr[p].pc = "done"

\* the first task, in the order of submission, that has not returned is p,
\* and it ended in an exception
FirstFailure(p) ==
    /\ p \in Tasks
    /\ fr[p].pc \in {"fatal", "raised"}
    /\ \A q \in Tasks : q < p => fr[q].pc = "done"

\* the frame of _join(d)'s call of api()
ChildCall(d, cache) ==
    NewCall(format(JoinTemplate, d), None, None,
            ChildTransform(entity_of(JoinTemplate).v),
            IF cache
            THEN Str(ChildCacheName(entity_of(ParentPath), entity_of(JoinTemplate).v, d))
            ELSE None,
            {200, 404})

\* api_join(path, name_attrs, join_path, cache): the call of api() for the parents
CallJoin ==
    /\ MainIdle
    /\ \E cache \in BOOLEAN :
          /\ jn' = [NoJoin EXCEPT !.pc = "parent", !.cache = cache]
          /\ fr' = [fr EXCEPT ![0] =
                      NewCall(ParentPath, None, None,
                              ParentTransform(entity_of(ParentPath), NameAttrs),
                              IF cache THEN Str(entity_of(ParentPath)) ELSE None,
                              {200})]
    /\ UNCHANGED <<now, files, noCache, srv, last, tb>>

\* EX.map submits one task per parent id-tuple
JoinFanOut ==
    /\ jn.pc = "parent"
    /\ fr[0].pc = "done"
    /\ LET ds == fr[0].ret
       IN IF ds.k # "list"
          THEN /\ jn' = [jn EXCEPT !.pc = "raised"]
               /\ fr' = fr
          ELSE /\ jn' = [jn EXCEPT !.pc = "wait"]
               /\ fr' = [p \in Procs |->
                           IF p \in 1..Len(ds.v) THEN ChildCall(ds.v[p].v, jn.cache)
                           ELSE fr[p]]
    /\ UNCHANGED <<now, files, noCache, srv, last, tb>>

\* list(...) has every result: return data
JoinReturn ==
    /\ jn.pc = "wait"
    /\ TasksDone
    /\ jn' = [jn EXCEPT !.pc = "returned", !.ret = List(jn.data)]
    /\ UNCHANGED <<now, files, noCache, srv, fr, last, tb>>

\* list(...) reaches a task that ended in an exception: the exception is
\* raised in the main thread and the tasks still queued are cancelled
JoinAbort ==
    /\ jn.pc = "wait"
    /\ \E p \in Tasks :
          /\ FirstFailure(p)
          /\ jn' = [jn EXCEPT !.pc = fr[p].pc]
    /\ fr' = [p \in Procs |->
                IF p \in Tasks /\ fr[p].pc = "start"
                THEN [fr[p] EXCEPT !.pc = "cancelled"] ELSE fr[p]]
    /\ UNCHANGED <<now, files, noCache, srv, last, tb>>

\* the answers a child fetch may get
Ok(n) == [st |-> 200, n |-> n]
NoField == [st |-> 200, n |-> -1]
NotFound == [st |-> 404, n |-> -1]
Failing == [st |-> 500, n |-> -1]

\* the records parent i has when it has any
RecordsOf(i) == 1 + (i % MaxRecords)

\* N parents, parent b (if any) failing, the others in a fixed pattern
Patterned(N, b) ==
    [i \in 1..N |->
        IF i = b THEN Failing
        ELSE IF i % 3 = 0 THEN Ok(RecordsOf(i))
        ELSE IF i % 3 = 1 THEN NotFound
        ELSE NoField]

JoinServer(child) ==
    [total |-> 0, tc |-> "int", codes |-> {200}, xcodes |-> {200},
     ttls |-> {MaxTtl}, child |-> child]

\* up to MaxMixed parents with every combination of answers
MixedServers ==
    {JoinServer(c) : c \in UNION {[1..N -> {Ok(1), Ok(MaxRecords), NoField, NotFound, Failing}] :
                                   N \in 0..MaxMixed}}

\* up to MaxParents parents (more than the pool has workers), one of them
\* failing or none
WideServers ==
    {JoinServer(Patterned(N, b)) : N \in (MaxMixed + 1)..MaxParents, b \in 0..MaxParents}

InitJoin ==
    /\ now = 0
    /\ files \in {NoFiles, TokenFile(MaxTtl)}
    /\ \/ srv \in MixedServers /\ noCache \in BOOLEAN
       \/ srv \in WideServers /\ noCache = FALSE
    /\ fr = [p \in Procs |-> IdleFrame]
    /\ jn = NoJoin
    /\ last = NoLast
    /\ tb = NoTable

NextJoin ==
    \/ CallJoin
    \/ \E p \in Procs : ApiStep(p)
    \/ JoinFanOut
    \/ JoinReturn
    \/ JoinAbort

\* one api_join() call, the clock standing still
SpecJoin == InitJoin /\ [][NextJoin]_vars

(***************************************************************************)
(* One call of the main thread, api() or api_join(), the clock standing    *)
(* still: a token that is live when the call begins outlasts the call.     *)
(***************************************************************************)
\* a store with a live entry under every name a call may use: the token, the
\* query name "q", the parent listing and the join entry of each of n parents
LiveStore(n) ==
    LET joined == {ChildCacheName(entity_of(ParentPath), entity_of(JoinTemplate).v,
                                  <<Str(ParentNames[i])>>) : i \in 1..n}
    IN [name \in {"token", "q", entity_of(ParentPath)} \cup joined |->
          [expires |-> MaxTtl,
           data |-> IF name = "token" THEN Token(MaxTtl) ELSE List(<<Num(7)>>)]]

\* TMC_NO_CACHE set while the store holds live entries
InitBypass ==
    /\ now = 0
    /\ noCache = TRUE
    /\ srv \in MixedServers
    /\ files = LiveStore(Len(srv.child))
    /\ fr = [p \in Procs |-> IdleFrame]
    /\ jn = NoJoin
    /\ last = NoLast
    /\ tb = NoTable

InitCalls == Init \/ InitJoin \/ InitBypass

NextCalls ==
    \/ CallApi
    \/ CallJoin
    \/ \E p \in Procs : ApiStep(p)
    \/ JoinFanOut
    \/ JoinReturn
    \/ JoinAbort

SpecCalls == InitCalls /\ [][NextCalls]_vars

(***************************************************************************)
(* api_join() as the cluster-policies query calls it: three name           *)
(* attributes per cluster, the listing served from a live "clusters"       *)
(* entry of the store, and join caching on.                                *)
(***************************************************************************)
ClusterPath == Path(<<"v1alpha1", "clusters">>, <<>>)

\* '/v1alpha1/clusters/{0}/policies?&searchScope.managementClusterName={1}
\* &searchScope.provisionerName={2}'
ClusterTemplate ==
    [segs |-> <<Str("v1alpha1"), Str("clusters"), Num(0), Str("policies")>>,
     query |-> <<Num(1), Num(2)>>]

ClusterNameAttrs == <<"name", "provisionerName", "managementClusterName">>

\* the fullName values a cluster may have
ClusterIds == {"c1", "c2"} \X {"p1", "p2"} \X {"m1", "m2"}

ClusterRecord(c) ==
    Dict("fullName" :> Dict(("name" :> Str(c[1])) @@ ("provisionerName" :> Str(c[2]))
                            @@ ("managementClusterName" :> Str(c[3]))))

ClusterBody(cs) == Dict("clusters" :> List([i \in 1..Len(cs) |-> ClusterRecord(cs[i])]))

\* the id-tuples the parent fetch yields for the clusters cs
ClusterListing(cs) ==
    search(ParentTransform(entity_of(ClusterPath), ClusterNameAttrs), ClusterBody(cs))

\* the frame of _join(d)'s call of api() for a cluster
ClusterCall(d, cache) ==
    NewCall(format(ClusterTemplate, d), None, None,
            ChildTransform(entity_of(ClusterTemplate).v),
            IF cache
            THEN Str(ChildCacheName(entity_of(ClusterPath), entity_of(ClusterTemplate).v, d))
            ELSE None,
            {200, 404})

\* api_join('/v1alpha1/clusters', name_attrs, join_path, cache=True)
CallClusters ==
    /\ MainIdle
    /\ jn' = [NoJoin EXCEPT !.pc = "parent", !.cache = TRUE]
    /\ fr' = [fr EXCEPT ![0] =
                NewCall(ClusterPath, None, None,
                        ParentTransform(entity_of(ClusterPath), ClusterNameAttrs),
                        Str(entity_of(ClusterPath)), {200})]
    /\ UNCHANGED <<now, files, noCache, srv, last, tb>>

\* EX.map submits one task per cluster id-tuple
ClusterFanOut ==
    /\ jn.pc = "parent"
    /\ fr[0].pc = "done"
    /\ jn' = [jn EXCEPT !.pc = "wait"]
    /\ fr' = [p \in Procs |->
                IF p \in 1..Len(fr[0].ret.v) THEN ClusterCall(fr[0].ret.v[p].v, jn.cache)
                ELSE fr[p]]
    /\ UNCHANGED <<now, files, noCache, srv, last, tb>>

\* the store with a live listing of the clusters cs
ClusterFiles(fs, cs) ==
    Put(fs, entity_of(ClusterPath), [expires |-> MaxTtl, data |-> ClusterListing(cs)])

InitClusters ==
    /\ now = 0
    /\ files \in {ClusterFiles(fs, cs) : fs \in {NoFiles, TokenFile(MaxTtl)},
                                         cs \in [1..2 -> ClusterIds]}
    /\ noCache = FALSE
    /\ srv = JoinServer(<<>>)
    /\ fr = [p \in Procs |-> IdleFrame]
    /\ jn = NoJoin
    /\ last = NoLast
    /\ tb = NoTable

NextClusters ==
    \/ CallClusters
    \/ \E p \in Procs : ApiStep(p)
    \/ ClusterFanOut
    \/ JoinAbort

\* one cluster-policies join over two clusters, the clock standing still
SpecClusters == InitClusters /\ [][NextClusters]_vars

(***************************************************************************)
(* api() as the command line calls it for a path given by the user: the    *)
(* transform is the text of the --transform option, which need not parse.  *)
(***************************************************************************)
AdhocArgs ==
    [paginate : {None, Str("items")},
     limit : {None, Num(MaxLimit)},
     transform : {None, Field("items"), Malformed}]

\* api(args.url, paginate=args.paginate, transform=transform, limit=args.limit)
CallAdhoc ==
    /\ MainIdle
    /\ \E a \in AdhocArgs :
          fr' = [fr EXCEPT ![0] = NewCall(ItemsPath, a.paginate, a.limit, a.transform,
                                          None, {200})]
    /\ UNCHANGED <<now, files, noCache, srv, jn, last, tb>>

InitAdhoc ==
    /\ now = 0
    /\ files \in {NoFiles, TokenFile(MaxTtl)}
    /\ noCache \in BOOLEAN
    /\ srv \in {AnyServer(t) : t \in {0, MaxTotal}}
    /\ fr = [p \in Procs |-> IdleFrame]
    /\ jn = NoJoin
    /\ last = NoLast
    /\ tb = NoTable

NextAdhoc == CallAdhoc \/ ApiStep(0)

\* one call for a path given on the command line, the clock standing still
SpecAdhoc == InitAdhoc /\ [][NextAdhoc]_vars

(***************************************************************************)
(* print_table(headers, data, counter, sort_key, dumpfile). The caller's   *)
(* headers list and row dicts are objects the call can change: tb.headers  *)
(* and tb.data are what the caller holds, tb.args what was passed. tb.out  *)
(* is the text printed, line by line, without the colour escape codes;     *)
(* tb.dump is the JSON document in the dump file, None when there is no    *)
(* file. Cell texts have no white space, so textwrap.wrap breaks them into *)
(* pieces of the wrap width.                                               *)
(***************************************************************************)
CounterHeader == " "

\* maxwidth = 40 if len(headers) > 1 else 80
maxwidth(headers) == IF Len(headers) > 1 THEN 40 ELSE 80

RECURSIVE wrap(_, _)
\* textwrap.wrap(text, width=width): no line for the empty text
wrap(text, width) ==
    IF Len(text) = 0 THEN <<>>
    ELSE IF Len(text) <= width THEN <<text>>
    ELSE <<SubSeq(text, 1, width)>> \o wrap(SubSeq(text, width + 1, Len(text)), width)

\* '.' in h
HasDot(h) == \E i \in 1..Len(h) : SubSeq(h, i, i) = "."

RECURSIVE HeaderExpr(_)
\* the expression a dotted name a.b.c parses to
HeaderExpr(h) ==
    IF ~HasDot(h) THEN Field(h)
    ELSE LET i == CHOOSE i \in 1..Len(h) :
                     /\ SubSeq(h, i, i) = "."
                     /\ \A j \in 1..(i - 1) : SubSeq(h, j, j) # "."
         IN Sub(Field(SubSeq(h, 1, i - 1)), HeaderExpr(SubSeq(h, i + 1, Len(h))))

\* v = jmespath.search(h + ' || ``', r) if '.' in h else r.get(h, '')
CellValue(h, r) ==
    IF HasDot(h) THEN search(OrElse(HeaderExpr(h), Lit(Str(""))), r)
    ELSE IF h \in DOMAIN r.v THEN r.v[h] ELSE Str("")

\* every row has the sort key: k[sort_key] raises KeyError otherwise
Sortable(data, key) == \A i \in DOMAIN data : key \in DOMAIN data[i].v

RECURSIVE InsertRow(_, _, _, _)
\* the place i put behind the places whose rows have a key that is not greater
InsertRow(s, i, data, key) ==
    IF s = <<>> THEN <<i>>
    ELSE IF data[i].v[key].v < data[Head(s)].v[key].v THEN <<i>> \o s
    ELSE <<Head(s)>> \o InsertRow(Tail(s), i, data, key)

RECURSIVE sorted(_, _, _)
\* sorted(data, key=lambda k: k[sort_key]) of the first n rows, as the places
\* the rows have in data: the new list holds the same dicts
sorted(data, n, key) ==
    IF n = 0 THEN <<>> ELSE InsertRow(sorted(data, n - 1, key), n, data, key)

\* the places in the caller's list of the rows of the local list data
RowOrder(data, sort_key) ==
    IF sort_key = None THEN [i \in 1..Len(data) |-> i]
    ELSE sorted(data, Len(data), sort_key.v)

\* the counter starting at 0: rc += 1 after its use
RowCounterFromZero(k) == Str(ToString(k - 1))

\* rc += 1; str(rc) for the k-th row rendered
RowCounter(k) == Str(ToString(k))

\* r[' '] = str(rc): the k-th row rendered, as the loop leaves it
Marked(r, k, counter) ==
    IF counter THEN Dict((CounterHeader :> RowCounter(k)) @@ r.v) ELSE r

\* rlines: the wrapped lines of row r under each header
RowLines(r, hs, width) ==
    [j \in 1..Len(hs) |-> wrap(PyStr(CellValue(hs[j], r)), width)]

\* linec: the number of output lines of row r
LineCount(r, hs, width) ==
    LET ns == {Len(RowLines(r, hs, width)[j]) : j \in 1..Len(hs)} \cup {0}
    IN CHOOSE n \in ns : \A m \in ns : m <= n

\* the dicts appended to _data for row r: one per output line
Block(r, hs, width) ==
    LET rl == RowLines(r, hs, width)
    IN [lc \in 1..LineCount(r, hs, width) |->
          [j \in 1..Len(hs) |-> IF lc <= Len(rl[j]) THEN rl[j][lc] ELSE ""]]

RECURSIVE Blocks(_, _, _)
Blocks(rows, hs, width) ==
    IF rows = <<>> THEN <<>>
    ELSE Block(Head(rows), hs, width) \o Blocks(Tail(rows), hs, width)

RECURSIVE ColWidth(_, _, _, _, _, _)
\* colwidths[hs[j]] after the first k rows: first is its value before the loop
ColWidth(j, first, rows, k, hs, width) ==
    IF k = 0 THEN first
    ELSE LET before == ColWidth(j, first, rows, k - 1, hs, width)
             lines == RowLines(rows[k], hs, width)[j]
         IN IF Len(lines) > 1 THEN width
            ELSE IF Len(lines) = 1 /\ Len(lines[1]) > before THEN Len(lines[1])
            ELSE before

RECURSIVE Repeat(_, _)
\* c * n
Repeat(c, n) == IF n <= 0 THEN "" ELSE c \o Repeat(c, n - 1)

\* s.ljust(w)
ljust(s, w) == s \o Repeat(" ", w - Len(s))

RECURSIVE Join(_, _)
\* sep.join(cells)
Join(cells, sep) ==
    IF cells = <<>> THEN ""
    ELSE IF Len(cells) = 1 THEN cells[1]
    ELSE cells[1] \o sep \o Join(Tail(cells), sep)

\* _print_line(d, sep=sep): the cells of d padded to the column widths
PrintLine(d, widths, sep) ==
    Join([j \in 1..Len(d) |-> ljust(d[j], widths[j])], " " \o sep \o " ")

Notice == [kind |-> "notice", text |-> " - no data - "]
TableLine(kind, text) == [kind |-> kind, text |-> text]

\* the call print_table(headers, data, counter, sort_key, dumpfile)
TableCall(headers, data, counter, sort_key, dumpfile) ==
    [pc |-> "called", headers |-> headers, data |-> data, out |-> <<>>, dump |-> None,
     err |-> "",
     args |-> [headers |-> headers, data |-> data, counter |-> counter,
               sort_key |-> sort_key, dumpfile |-> dumpfile]]

\* the test that never finds the table empty
NoDataBelowZero(data) == Len(data) < 0

\* len(data) == 0
NoData(data) == Len(data) = 0

\* what the call leaves behind when it has ended
print_table(t) ==
    LET a == t.args
        N == Len(a.data)
    IN IF NoData(a.data)
       THEN [t EXCEPT !.pc = "returned", !.out = <<Notice>>]
       ELSE IF a.sort_key # None /\ ~Sortable(a.data, a.sort_key.v)
       THEN [t EXCEPT !.pc = "raised", !.err = "KeyError"]
       ELSE LET order == RowOrder(a.data, a.sort_key)
                width == maxwidth(a.headers)
                hs == IF a.counter THEN <<CounterHeader>> \o a.headers ELSE a.headers
                rows == [k \in 1..N |-> Marked(a.data[order[k]], k, a.counter)]
                first == [j \in 1..Len(hs) |->
                            IF a.counter /\ j = 1 THEN Len(ToString(N)) ELSE Len(hs[j])]
                widths == [j \in 1..Len(hs) |-> ColWidth(j, first[j], rows, N, hs, width)]
                cells == Blocks(rows, hs, width)
                table == <<TableLine("header", PrintLine(hs, widths, "|")),
                           TableLine("separator",
                                     PrintLine([j \in 1..Len(hs) |-> Repeat("-", widths[j])],
                                               widths, "+"))>>
                         \o [x \in 1..Len(cells) |->
                               TableLine("row", PrintLine(cells[x], widths, "|"))]
            IN [t EXCEPT
                  !.pc = "returned",
                  !.headers = hs,
                  !.data = [i \in 1..N |->
                              rows[CHOOSE k \in 1..N : order[k] = i]],
                  !.out = IF a.dumpfile = None THEN table
                          ELSE Append(table, TableLine("written", "written " \o a.dumpfile.v)),
                  !.dump = IF a.dumpfile = None THEN None ELSE List(rows)]

\* print_table runs on the main thread from its call to its end
PrintTable ==
    /\ tb.pc = "called"
    /\ tb' = print_table(tb)
    /\ UNCHANGED <<now, files, noCache, srv, fr, jn, last>>

\* the rows a table may be given
LongText == Repeat("x", 45)
TableRows ==
    {Dict(("n" :> Num(2)) @@ ("name" :> Str("a"))),
     Dict(("n" :> Num(1)) @@ ("name" :> Str(LongText))),
     Dict(("n" :> Num(2)) @@ ("fullName" :> Dict("name" :> Str("b")))),
     Dict("name" :> Str("c"))}

\* a table of MaxCount rows, in descending order of n
TallTable == [i \in 1..MaxCount |-> Dict(("n" :> Num(MaxCount - i)) @@ ("name" :> Str("t")))]

TableHeaders == {<<"name">>, <<"n", "name">>, <<"fullName.name", "n">>}

InitTable ==
    /\ now = 0
    /\ files = NoFiles
    /\ noCache = FALSE
    /\ srv = GoodServer(0, "int", <<>>)
    /\ fr = [p \in Procs |-> IdleFrame]
    /\ jn = NoJoin
    /\ last = NoLast
    /\ tb \in {TableCall(hs, data, counter, sort_key, dumpfile) :
                  hs \in TableHeaders,
                  data \in UNION {[1..n -> TableRows] : n \in 0..MaxRows} \cup {TallTable},
                  counter \in BOOLEAN,
                  sort_key \in {None, Str("n")},
                  dumpfile \in {None, Str("out.json")}}

NextTable == PrintTable

\* one print_table() call
SpecTable == InitTable /\ [][NextTable]_vars

(***************************************************************************)
(* Properties.                                                             *)
(***************************************************************************)
Ceil(a, b) == (a + b - 1) \div b

\* the first n items the server holds, in server order
FirstItems(n) == List([i \in 1..n |-> Num(i)])

\* the paginated call of the main thread has returned
PagedDone == fr[0].pc = "done" /\ fr[0].paginate = Str("items")

\* C1 as stated: a paginated call without limit against a server that holds
\* T items and reports totalCount = T issues exactly ceil(T/100) requests and
\* returns the T items in server order, for every T.
C1_CeilRequests ==
    (PagedDone /\ fr[0].limit = None) =>
        /\ Len(fr[0].reqs) = Ceil(srv.total, PageSize)
        /\ fr[0].ret = FirstItems(srv.total)

\* C1 amended: the same call issues exactly ceil(T/100) requests when T >= 1
\* and exactly one request when T = 0, and returns the T items in server order.
C1_Requests ==
    (PagedDone /\ fr[0].limit = None) =>
        /\ Len(fr[0].reqs) = (IF srv.total = 0 THEN 1 ELSE Ceil(srv.total, PageSize))
        /\ fr[0].ret = FirstItems(srv.total)

\* C1 witness: the call against 217 items has returned after 3 requests.
C1_Witness ==
    /\ PagedDone /\ fr[0].limit = None
    /\ srv.total = 217 /\ Len(fr[0].reqs) = 3 /\ Len(fr[0].ret.v) = 217

\* C2: a paginated call with limit L against a server that holds T > L items
\* returns exactly L elements (the first L the server holds), whether L is
\* below the page size of 100 or not.
C2_LimitExact ==
    (PagedDone /\ fr[0].limit # None /\ fr[0].limit.v < srv.total) =>
        /\ Len(fr[0].ret.v) = fr[0].limit.v
        /\ fr[0].ret = FirstItems(fr[0].limit.v)

\* C3: get_cache(name) returns the stored data at any clock value before the
\* entry's expiry (so right after write_cache) and None from the expiry on;
\* the entry stays in place unaltered, and get_cache(name, raw=True) returns it
\* with its expiry.
C3_CacheTtl ==
    /\ last.op = "write_cache" =>
            get_cache(files, last.at, last.name, FALSE) = last.doc.data
    /\ (last.op = "get_cache" /\ last.doc # None) =>
            /\ isfile(files, last.name) /\ files[last.name] = last.doc
            /\ last.raw => last.ret = last.doc
            /\ (~last.raw /\ last.at < last.doc.expires) => last.ret = last.doc.data
            /\ (~last.raw /\ last.at >= last.doc.expires) => last.ret = None

\* C3 witness: a read of an expired entry that holds data returned None.
C3_Witness ==
    /\ last.op = "get_cache" /\ ~last.raw /\ last.doc # None
    /\ last.doc.data # None /\ last.at >= last.doc.expires
    /\ last.ret = None /\ files[last.name] = last.doc

\* the main thread's call has a cache name, caching is enabled and the call
\* is at its cache lookup
AtLookup == fr[0].pc = "start" /\ fr[0].cache # None /\ ~noCache

\* a live entry exists under the cache name of the main thread's call
LiveEntry ==
    /\ isfile(files, fr[0].cache.v)
    /\ files[fr[0].cache.v] # Torn
    /\ now < files[fr[0].cache.v].expires

\* the call returns the cached data at once and does nothing else
HitStep ==
    /\ fr'[0].pc = "done"
    /\ fr'[0].ret = files[fr[0].cache.v].data
    /\ files' = files
    /\ fr'[0].reqs = <<>> /\ fr'[0].exch = 0 /\ fr'[0].looks = 0
    /\ fr'[0].data = fr[0].data /\ fr'[0].token = None

\* C4 as stated: with a cache name, caching enabled and a live entry under
\* the name, api() returns the cached data at once: no token lookup, no
\* exchange, no HTTP request, no transform, and the cache store unchanged.
C4_LiveEntryHit ==
    [][(AtLookup /\ LiveEntry /\ fr'[0] # fr[0]) => HitStep]_vars

\* C4 amended: the same, for a live entry whose data is not null (a live
\* entry holding null is read as a miss and the call goes on to fetch).
C4_Hit ==
    [][(AtLookup /\ LiveEntry /\ files[fr[0].cache.v].data # None /\ fr'[0] # fr[0])
          => HitStep]_vars

\* C4 witness: a call with a transform returned the cached data without a
\* request.
C4_Witness ==
    /\ fr[0].pc = "done" /\ fr[0].cache = Str("q") /\ ~noCache
    /\ fr[0].transform # None
    /\ fr[0].reqs = <<>> /\ fr[0].exch = 0 /\ fr[0].looks = 0
    /\ fr[0].ret = List(<<Num(7)>>)

\* C5: a call with a cache name, caching enabled and no live entry, whose
\* responses were all allowed, completes and leaves under the name an entry
\* holding the transformed result, with the expiry derived from the call's ttl.
C5_MissStored ==
    [][(fr[0].pc = "finish" /\ fr[0].cache # None /\ ~noCache /\ fr'[0] # fr[0]) =>
          /\ fr'[0].pc = "done"
          /\ isfile(files', fr[0].cache.v)
          /\ files'[fr[0].cache.v] =
                [expires |-> now + OrDefault(fr[0].expire_mins), data |-> fr'[0].ret]]_vars

\* the request of frame f that was answered with a status outside allowed_codes
RefusedAt(f) == {i \in DOMAIN f.reqs : f.reqs[i].status \notin f.allowed}

\* C6, in states: an exchange answered with a non-200 status, or any request
\* answered with a status outside allowed_codes, leaves the call ended fatally
\* with no value returned; that request is the last one issued, and a refused
\* exchange is the only one and precedes all requests.
C6_FatalState ==
    \A p \in Procs :
        /\ (fr[p].xst \notin {0, 200}) =>
                fr[p].pc = "fatal" /\ fr[p].ret = None /\ fr[p].exch = 1
                /\ fr[p].reqs = <<>>
        /\ (RefusedAt(fr[p]) # {}) =>
                fr[p].pc = "fatal" /\ fr[p].ret = None
                /\ RefusedAt(fr[p]) = {Len(fr[p].reqs)}
        /\ fr[p].pc = "fatal" => (fr[p].xst \notin {0, 200} \/ RefusedAt(fr[p]) # {})

\* C6, in steps: a call that has ended fatally does nothing more, and the
\* only step of a call that changes the entry under its cache name is the
\* one that returns.
C6_FatalStep ==
    \A p \in Procs :
        /\ fr[p].pc = "fatal" => fr'[p] = fr[p]
        /\ (fr[p].cache # None /\ fr'[p] # fr[p] /\ fr'[p].pc # "done") =>
              /\ isfile(files', fr[p].cache.v) = isfile(files, fr[p].cache.v)
              /\ isfile(files, fr[p].cache.v) =>
                    files'[fr[p].cache.v] = files[fr[p].cache.v]

\* C6: api() never returns a partial result: a refused token exchange or a
\* response outside allowed_codes ends the call fatally at that point, with no
\* value returned, no further request, no retry and no cache entry written
\* under the call's cache name.
C6_NoPartial == []C6_FatalState /\ [][C6_FatalStep]_vars

\* C6 witness: the second page of a call was refused after the first page was
\* accumulated.
C6_Witness ==
    /\ fr[0].pc = "fatal" /\ Len(fr[0].reqs) = 2
    /\ fr[0].reqs[2].status \notin fr[0].allowed
    /\ Len(fr[0].data.v) = PageSize /\ fr[0].cache # None /\ ~noCache

\* C10: every HTTP API request carries a token whose expiry is strictly later
\* than the clock at the moment the request is sent.
C10_TokenFresh ==
    \A p \in Procs : \A i \in DOMAIN fr[p].reqs :
        fr[p].reqs[i].at < fr[p].reqs[i].token.exp

\* the number of records the child fetch of parent i yields
Yield(i) == IF srv.child[i].st = 200 /\ srv.child[i].n > 0 THEN srv.child[i].n ELSE 0

RECURSIVE SumYield(_)
SumYield(n) == IF n = 0 THEN 0 ELSE Yield(n) + SumYield(n - 1)

\* the places of record r in the sequence s
Places(s, r) == {x \in DOMAIN s : s[x] = r}

\* C7: the sequence api_join() returns holds exactly the sum of the k_i
\* records, each child record exactly once, under every interleaving of the
\* tasks; a parent answered with 404 (or without the child field) adds none
\* and leaves the other fetches alone.
C7_JoinComplete ==
    jn.pc = "returned" =>
        /\ Len(jn.ret.v) = SumYield(Len(srv.child))
        /\ \A i \in 1..Len(srv.child) : \A j \in 1..Yield(i) :
              Cardinality(Places(jn.ret.v, ChildRecord(i, j))) = 1

\* C7 witness: two parents, one answered with 404 and one with 2 records, and
\* the join returned exactly those 2 records.
C7_Witness ==
    /\ jn.pc = "returned" /\ Len(srv.child) = 2
    /\ srv.child[1] = NotFound /\ srv.child[2] = Ok(2)
    /\ fr[1].reqs[1].status = 404 /\ fr[1].pc = "done"
    /\ jn.ret = List(<<ChildRecord(2, 1), ChildRecord(2, 2)>>)

\* C8: at most 5 child fetches are in progress at any time, whatever the
\* number of parents; the other tasks wait in the queue.
C8_PoolBound ==
    /\ Cardinality(Running) <= MaxWorkers
    /\ \A p \in Tasks : fr[p].pc \in Active \cup Ended \cup {"start"}

\* C8 witness: 5 child fetches are in progress while a sixth task waits.
C8_Witness ==
    /\ Cardinality(Running) = MaxWorkers
    /\ \E p \in Tasks : fr[p].pc = "start"
    /\ \A p \in Running : fr[p].pc = "request"

\* a child fetch was answered with a status outside {200, 404}
ChildRefused == \E p \in Tasks : RefusedAt(fr[p]) # {}

\* C9: once a child fetch was answered with a status outside {200, 404},
\* api_join() never returns a sequence to its caller, whichever parent failed
\* and in whichever order the tasks complete.
C9_JoinAborts == ChildRefused => (jn.pc # "returned" /\ jn.ret = None)

\* C9 witness: the last parent of more than 5 failed after records of other
\* children were accumulated, and the join ended fatally without returning.
C9_Witness ==
    /\ jn.pc = "fatal" /\ jn.ret = None /\ jn.data # <<>>
    /\ Len(srv.child) > MaxWorkers
    /\ srv.child[Len(srv.child)] = Failing

\* C11, in states: while TMC_NO_CACHE is set no call looks the token up in
\* the store, every call that gets as far as a request has made its own
\* token exchange, and a call that returned has sent a live request.
C11_BypassState ==
    noCache =>
        \A p \in Procs :
            /\ fr[p].looks = 0
            /\ fr[p].pc \in {"request", "finish", "done"} => fr[p].exch = 1
            /\ fr[p].pc = "done" => Len(fr[p].reqs) >= 1

\* C11, in steps: while TMC_NO_CACHE is set no step of a call changes the
\* cache store.
C11_BypassStep == (noCache /\ fr' # fr) => files' = files

\* C11: while TMC_NO_CACHE is set, no api() or api_join() call reads or
\* writes the cache store: every lookup (token, query, join entry) is a miss,
\* so a token exchange and live requests always occur, and the store is the
\* same before and after the call, even when live entries exist under the
\* names used.
C11_Bypass == []C11_BypassState /\ [][C11_BypassStep]_vars

\* C11 witness: with the bypass set and a live entry in the store under the
\* token, the parent listing and both join names, a join with join caching
\* has returned the server's records: the parent fetch and both tasks each
\* exchanged a token and sent a request, and the store is as it was.
C11_Witness ==
    /\ noCache /\ jn.pc = "returned" /\ jn.cache /\ Len(srv.child) = 2
    /\ files = LiveStore(2)
    /\ fr[1].cache = Str("workspaces-policies-n1") /\ isfile(files, fr[1].cache.v)
    /\ \A p \in 0..2 : fr[p].exch = 1 /\ Len(fr[p].reqs) = 1 /\ fr[p].looks = 0
    /\ jn.ret = List(<<ChildRecord(1, 1), ChildRecord(2, 1)>>)

\* C12: within one api_join() call with join caching on, the child fetches of
\* two different parent id-tuples of the listing use different cache names,
\* also when the tuples share the first id and differ in a later one.
C12_DistinctNames ==
    jn.pc = "wait" =>
        \A p, q \in Tasks :
            fr[0].ret.v[p] # fr[0].ret.v[q] => fr[p].cache # fr[q].cache

\* C13: a call with a transform that does not parse is rejected before any
\* network activity: it makes no token exchange and sends no request.
C13_RejectedEarly ==
    \A p \in Procs :
        fr[p].transform = Malformed => fr[p].exch = 0 /\ fr[p].reqs = <<>>

\* C14, in states: after write_cache(name, data, ttl) the entry under the
\* name holds the data and the expiry now + ttl, for every ttl >= 0 supplied,
\* and now + 60 when none was supplied.
C14_Entry ==
    last.op = "write_cache" =>
        /\ isfile(files, last.name)
        /\ files[last.name] =
              [expires |-> last.at + (IF last.ttl = None THEN DefaultExpire ELSE last.ttl.v),
               data |-> last.data]

\* C14, in steps: write_cache leaves the entries under every other name as
\* they were.
C14_Frame ==
    (last' # last /\ last'.op = "write_cache") =>
        /\ DOMAIN files' = DOMAIN files \cup {last'.name}
        /\ \A n \in DOMAIN files : n # last'.name => files'[n] = files[n]

\* C14: write_cache(name, data, ttl) persists an entry with the expiry
\* exactly now + ttl for every non-negative ttl supplied, uses 60 only when
\* no ttl is supplied, replaces the prior entry under the name and leaves the
\* entries under other names unchanged.
C14_ExactExpiry == []C14_Entry /\ [][C14_Frame]_vars

\* the print_table() call has returned, having been given rows
Rendered == tb.pc = "returned" /\ Len(tb.args.data) >= 1

\* the number of times the record r occurs in the sequence s
Count(s, r) == Cardinality({i \in DOMAIN s : s[i] = r})

\* C15: when print_table() is given a dump file and rows, the dump file holds
\* the original rows: the same records with the same fields and values,
\* nothing added by the rendering, whatever counter and sort_key are.
C15_DumpOriginal ==
    (Rendered /\ tb.args.dumpfile # None) =>
        /\ tb.dump.k = "list"
        /\ Len(tb.dump.v) = Len(tb.args.data)
        /\ \A i \in DOMAIN tb.args.data :
              Count(tb.dump.v, tb.args.data[i]) = Count(tb.args.data, tb.args.data[i])

\* text begins with prefix
StartsWith(text, prefix) ==
    Len(text) >= Len(prefix) /\ SubSeq(text, 1, Len(prefix)) = prefix

\* the row rendered k-th
RenderedRow(k) == tb.data[RowOrder(tb.args.data, tb.args.sort_key)[k]]

\* the number of output lines of the row rendered k-th
LinesOf(k) == LineCount(RenderedRow(k), tb.headers, maxwidth(tb.args.headers))

RECURSIVE LinesBefore(_)
\* the number of lines printed before the block of the row rendered k-th
LinesBefore(k) == IF k = 1 THEN 2 ELSE LinesBefore(k - 1) + LinesOf(k - 1)

\* C16: with counter enabled and N >= 1 rows, the first column carries 1..N
\* in rendered row order: the rows are rendered in ascending order of the
\* sort key, the k-th block has k in the first column of its first line and
\* an empty first column on its continuation lines, and the blocks are all
\* the row lines there are.
C16_CounterColumn ==
    (Rendered /\ tb.args.counter) =>
        LET N == Len(tb.args.data)
            W == Len(ToString(N))
            rowLines == {x \in DOMAIN tb.out : tb.out[x].kind = "row"}
        IN /\ tb.args.sort_key # None =>
                 \A k \in 1..(N - 1) :
                    RenderedRow(k).v[tb.args.sort_key.v].v
                       <= RenderedRow(k + 1).v[tb.args.sort_key.v].v
           /\ rowLines = 3..(LinesBefore(N) + LinesOf(N))
           /\ \A k \in 1..N :
                 /\ LinesOf(k) >= 1
                 /\ StartsWith(tb.out[LinesBefore(k) + 1].text,
                               ljust(ToString(k), W) \o " | ")
                 /\ \A lc \in 2..LinesOf(k) :
                       StartsWith(tb.out[LinesBefore(k) + lc].text,
                                  Repeat(" ", W) \o " | ")

\* C16 witness: two rows given in descending order of the sort key, the one
\* rendered first wrapped over two lines: the lines begin with 1, blank and 2.
C16_Witness ==
    /\ Rendered /\ tb.args.counter /\ tb.args.sort_key = Str("n")
    /\ tb.args.headers = <<"n", "name">>
    /\ tb.args.data = <<Dict(("n" :> Num(2)) @@ ("name" :> Str("a"))),
                        Dict(("n" :> Num(1)) @@ ("name" :> Str(LongText)))>>
    /\ StartsWith(tb.out[3].text, "1 | 1 | xxx")
    /\ StartsWith(tb.out[4].text, "  |   | xxxxx ")
    /\ StartsWith(tb.out[5].text, "2 | 2 | a ")

\* C17: called with no rows, print_table() prints the "no data" notice and
\* nothing else and returns without error; no dump file is written even if
\* one was asked for, and the caller's headers list is as it was.
C17_NoData ==
    (tb.pc \notin {"none", "called"} /\ Len(tb.args.data) = 0) =>
        /\ tb.pc = "returned" /\ tb.err = ""
        /\ tb.out = <<Notice>>
        /\ tb.dump = None
        /\ tb.headers = tb.args.headers
        /\ tb.data = <<>>

\* C17 witness: a call with no rows, the counter on and a dump file asked
\* for has returned after the notice.
C17_Witness ==
    /\ tb.pc = "returned" /\ tb.args.data = <<>>
    /\ tb.args.counter /\ tb.args.dumpfile = Str("out.json")
    /\ tb.args.headers = <<"n", "name">>
    /\ Len(tb.out) = 1 /\ tb.out[1].kind = "notice"

\* the page size a paginated call with this limit is to send
SizeFor(limit) == IF limit = None THEN PageSize ELSE Min(PageSize, limit.v)

\* C18: in a paginated call the first request carries no pagination.offset
\* and every later request carries as offset the number of elements
\* accumulated from the earlier pages; the page size is min(100, limit) (100
\* without limit) on every request, so the offsets strictly increase and the
\* ranges requested follow one another without gap or overlap.
C18_Offsets ==
    \A p \in Procs :
        fr[p].paginate # None =>
            LET f == fr[p]
                size == SizeFor(f.limit)
            IN /\ \A i \in DOMAIN f.reqs :
                     /\ f.reqs[i].params.paged
                     /\ f.reqs[i].params.size = size
                     /\ i = 1 => f.reqs[i].params.offset = None
                     /\ i > 1 => f.reqs[i].params.offset = Num((i - 1) * size)
                     /\ i > 1 => size > 0
               /\ (f.pc = "request" /\ f.reqs # <<>>) =>
                     /\ f.offset = Num(Len(f.data.v))
                     /\ Len(f.data.v) = Len(f.reqs) * size

\* C18 witness: a call without limit against 217 items sent three requests,
\* without offset, with offset 100 and with offset 200, each of size 100.
C18_Witness ==
    /\ PagedDone /\ fr[0].limit = None /\ srv.total = 217
    /\ Len(fr[0].reqs) = 3
    /\ fr[0].reqs[1].params = [paged |-> TRUE, size |-> PageSize, offset |-> None]
    /\ fr[0].reqs[2].params = [paged |-> TRUE, size |-> PageSize, offset |-> Num(100)]
    /\ fr[0].reqs[3].params = [paged |-> TRUE, size |-> PageSize, offset |-> Num(200)]

\* C19: api_join() is fork-join: when it has returned a result, one task was
\* dispatched per parent, every task has completed and appended its records,
\* no task is running or queued, and the sequence returned is the whole of
\* what was accumulated.
C19_ForkJoin ==
    jn.pc = "returned" =>
        /\ Cardinality(Tasks) = Len(fr[0].ret.v)
        /\ \A p \in Tasks : fr[p].pc = "done"
        /\ Running = {}
        /\ jn.ret = List(jn.data)
        /\ \A p \in Tasks : \A x \in DOMAIN fr[p].ret.v :
              Places(jn.ret.v, fr[p].ret.v[x]) # {}

\* C19 witness: a join over more parents than the pool has workers has
\* returned with records, every task done.
C19_Witness ==
    /\ jn.pc = "returned" /\ Len(srv.child) > MaxWorkers
    /\ Cardinality(Tasks) = Len(srv.child)
    /\ \A p \in Tasks : fr[p].pc = "done"
    /\ Len(jn.ret.v) > 0

\* the threads whose call has made a token exchange
Exchanged == {p \in Procs : fr[p].exch >= 1}

\* C20, for one api() call: at most one token exchange, made before the
\* first request and only when no live token is cached, and every request of
\* the call carries the one token the call obtained.
C20_PerCall ==
    \A p \in Procs :
        /\ fr[p].exch <= 1
        /\ fr[p].pc \in {"start", "token", "exchange"} =>
              fr[p].exch = 0 /\ fr[p].reqs = <<>>
        /\ (fr[p].pc = "exchange" /\ ~noCache) =>
              get_cache(files, now, "token", FALSE) = None
        /\ \A i \in DOMAIN fr[p].reqs :
              /\ fr[p].reqs[i].token # None
              /\ fr[p].reqs[i].token = fr[p].token
              /\ fr[p].exch = 1 => fr[p].token.exp - fr[p].reqs[i].at \in srv.ttls

\* C20, for one api_join() call with the cache in use: at most one exchange
\* among the parent fetch and all the tasks, none of it by a task, and every
\* task sends its request with the token the parent fetch used.
C20_PerJoin ==
    (jn.pc # "none" /\ ~noCache) =>
        /\ Cardinality(Exchanged) <= 1
        /\ \A w \in Workers :
              /\ fr[w].exch = 0
              /\ fr[w].reqs # <<>> => fr[w].token = fr[0].token

====
